---------------------------- MODULE Spec2Model ----------------------------
(***************************************************************************)
(* Model of src/budget_app.py: the heuristic MessageParser, the            *)
(* BudgetManager ledger and the RealTimeBudgetApp supervisor that runs the *)
(* bank poll-and-stream task and the SMS / email listeners under           *)
(* asyncio.gather and restarts the group when a task fails.                *)
(***************************************************************************)
EXTENDS Integers, Sequences, FiniteSets, TLC

VARIABLES
    stop,          \* RealTimeBudgetApp._stop_event (asyncio.Event, set or not)
    transactions,  \* BudgetManager.transactions, the ledger
    spc,           \* where the coroutine start() is
    tasks,         \* the task groups gather() has created, oldest first
    forwarded,     \* history: per group, the records its poll task appended
    polled,        \* history: the candidates returned to the newest poll task
    repeated,      \* history: the newest poll task was handed a key again
    lateSleep,     \* history: a task began a sleep with the stop event set
    msg,           \* the text the SMS / email transport delivers
    utcnow,        \* the date datetime.utcnow() gives
    calls,         \* handle_sms / handle_email calls made
    outcome        \* how the last of them ended

appVars == <<stop, spc, tasks, forwarded, polled, repeated, lateSleep>>
handleVars == <<msg, utcnow, calls, outcome>>
vars == <<stop, transactions, spc, tasks, forwarded, polled, repeated, lateSleep,
          msg, utcnow, calls, outcome>>

(***************************************************************************)
(* Bounds of the model.                                                    *)
(***************************************************************************)
MaxGroups == 2    \* task groups start() may launch in one behaviour
MaxBatch == 2     \* candidates one fetch_transactions() call returns
MaxWords == 2     \* words in a generated message
MaxCalls == 2     \* handle_sms / handle_email calls in one behaviour

(***************************************************************************)
(* Transaction (the dataclass) and the candidates the bank may return.     *)
(***************************************************************************)
Transaction(d, desc, amt, cur) ==
    [date |-> d, description |-> desc, amount |-> amt, currency |-> cur,
     category |-> "None"]

\* What an overriding fetch_transactions() may return: two candidates of the
\* same date with different keys.  Amounts are in hundredths.
BankTxns ==
    { Transaction("2023-05-12", "Amazon", -123456, "INR"),
      Transaction("2023-05-12", "PAYPAL", 5023, "USD") }

RECURSIVE SeqsUpTo(_, _)
SeqsUpTo(S, n) ==
    IF n = 0 THEN { <<>> }
    ELSE LET shorter == SeqsUpTo(S, n - 1)
         IN  shorter \cup { Append(s, x) : s \in shorter, x \in S }

Batches == SeqsUpTo(BankTxns, MaxBatch)

\* key = (txn.date, txn.description, txn.amount)
Key(txn) == <<txn.date, txn.description, txn.amount>>

Elems(q) == { q[i] : i \in 1 .. Len(q) }

\* the batch hands over a key that `before` holds, or one key twice
Repeats(batch, before) ==
    \/ \E i \in 1 .. Len(batch) : \E t \in before : Key(t) = Key(batch[i])
    \/ \E i, j \in 1 .. Len(batch) : i < j /\ Key(batch[i]) = Key(batch[j])

\* manager.add_transaction(txn)
add_transaction_Front(ledger, txn) == <<txn>> \o ledger
add_transaction_Replace(ledger, txn) == <<txn>>
add_transaction_Lost(ledger, txn) == ledger
add_transaction(ledger, txn) == Append(ledger, txn)

(***************************************************************************)
(* Text.  A message is a string; Python's str and re operations are        *)
(* modelled character by character.                                        *)
(***************************************************************************)
Ch(s, i) == IF 1 <= i /\ i <= Len(s) THEN SubSeq(s, i, i) ELSE ""
CharsOf(s) == { SubSeq(s, i, i) : i \in 1 .. Len(s) }

UpperAlpha == "ABCDEFGHIJKLMNOPQRSTUVWXYZ"
LowerAlpha == "abcdefghijklmnopqrstuvwxyz"
DigitChars == "0123456789"

Digit == CharsOf(DigitChars)                          \* \d
Letter == CharsOf(UpperAlpha) \cup CharsOf(LowerAlpha) \* [A-Z] under IGNORECASE
Space == {" "}                                        \* \s

IndexIn(c, alphabet) ==
    IF \E i \in 1 .. Len(alphabet) : Ch(alphabet, i) = c
    THEN CHOOSE i \in 1 .. Len(alphabet) : Ch(alphabet, i) = c
    ELSE 0

LowerMap == [c \in CharsOf(UpperAlpha) |-> Ch(LowerAlpha, IndexIn(c, UpperAlpha))]
UpperMap == [c \in CharsOf(LowerAlpha) |-> Ch(UpperAlpha, IndexIn(c, LowerAlpha))]
LowerCh(c) == IF c \in DOMAIN LowerMap THEN LowerMap[c] ELSE c
UpperCh(c) == IF c \in DOMAIN UpperMap THEN UpperMap[c] ELSE c

\* str.lower(), str.upper()
RECURSIVE Lower(_)
Lower(s) == IF s = "" THEN "" ELSE LowerCh(Ch(s, 1)) \o Lower(Tail(s))
RECURSIVE Upper(_)
Upper(s) == IF s = "" THEN "" ELSE UpperCh(Ch(s, 1)) \o Upper(Tail(s))

\* str.strip()
RECURSIVE LStrip(_)
LStrip(s) == IF Ch(s, 1) \in Space THEN LStrip(Tail(s)) ELSE s
RECURSIVE RStrip(_)
RStrip(s) ==
    IF Ch(s, Len(s)) \in Space THEN RStrip(SubSeq(s, 1, Len(s) - 1)) ELSE s
Strip(s) == RStrip(LStrip(s))

\* `needle in hay`
Contains(hay, needle) ==
    \E i \in 1 .. Len(hay) - Len(needle) + 1 :
        SubSeq(hay, i, i + Len(needle) - 1) = needle

\* str.replace(old, "") for a one-character old
RECURSIVE Remove(_, _)
Remove(s, c) ==
    IF s = "" THEN ""
    ELSE (IF Ch(s, 1) = c THEN "" ELSE Ch(s, 1)) \o Remove(Tail(s), c)

\* the number of characters from position i on that lie in S
RECURSIVE RunLen(_, _, _)
RunLen(s, i, S) == IF Ch(s, i) \in S THEN 1 + RunLen(s, i + 1, S) ELSE 0

Min(a, b) == IF a <= b THEN a ELSE b
Max(S) == CHOOSE x \in S : \A y \in S : y <= x

\* int() of a string of digits
RECURSIVE ToInt(_)
ToInt(s) ==
    IF s = "" THEN 0
    ELSE 10 * ToInt(SubSeq(s, 1, Len(s) - 1)) + (IndexIn(Ch(s, Len(s)), DigitChars) - 1)

\* str() of a natural number
RECURSIVE ToStr(_)
ToStr(n) ==
    IF n < 10 THEN Ch(DigitChars, n + 1)
    ELSE ToStr(n \div 10) \o Ch(DigitChars, (n % 10) + 1)

(***************************************************************************)
(* Regular expressions that are a sequence of pieces, each a character     *)
(* class repeated lo..hi times, matched greedily with backtracking:        *)
(* MatchFrom is the position after the match that re finds at i, 0 if none.*)
(***************************************************************************)
Piece(S, lo, hi) == [set |-> S, lo |-> lo, hi |-> hi]
Lit(c) == Piece({c}, 1, 1)

RECURSIVE MatchFrom(_, _, _)
MatchFrom(pat, s, i) ==
    IF pat = <<>> THEN i
    ELSE LET p == Head(pat)
             run == Min(RunLen(s, i, p.set), p.hi)
             good == { n \in p.lo .. run : MatchFrom(Tail(pat), s, i + n) # 0 }
         IN  IF good = {} THEN 0 ELSE MatchFrom(Tail(pat), s, i + Max(good))

NoMatch == [hit |-> FALSE]

\* regex.search(s): the leftmost match
Search(pat, s) ==
    LET starts == { i \in 1 .. Len(s) : MatchFrom(pat, s, i) # 0 }
    IN  IF starts = {} THEN NoMatch
        ELSE LET i == CHOOSE x \in starts : \A y \in starts : x <= y
             IN  [hit |-> TRUE, text |-> SubSeq(s, i, MatchFrom(pat, s, i) - 1)]

(***************************************************************************)
(* MessageParser: the tables.                                              *)
(***************************************************************************)
currency_glyphs == {"$", "€", "£", "₹", "¥"}
currency_symbols(c) ==
    CASE c = "$" -> "USD"
      [] c = "€" -> "EUR"
      [] c = "£" -> "GBP"
      [] c = "₹" -> "INR"
      [] c = "¥" -> "JPY"
      [] OTHER -> c

debit_keywords == {"debit", "debited", "withdrawn", "purchase", "spent"}
credit_keywords == {"credit", "credited", "deposit", "received"}
ignore_keywords == {"failed", "reversed", "reversal"}

\* (?P<currency>[A-Z]{3}|[$€£₹¥])\s*(?P<amount>[\d,]+(?:\.\d+)?), IGNORECASE:
\* the match that starts at i, if there is one
AmountAt(s, i) ==
    LET curLen == IF RunLen(s, i, Letter) >= 3 THEN 3
                  ELSE IF Ch(s, i) \in currency_glyphs THEN 1 ELSE 0
        k == i + curLen + RunLen(s, i + curLen, Space)
        whole == RunLen(s, k, Digit \cup {","})
        e == k + whole
        frac == IF Ch(s, e) = "." THEN RunLen(s, e + 1, Digit) ELSE 0
        fin == IF frac > 0 THEN e + 1 + frac ELSE e
    IN  IF curLen = 0 \/ whole = 0 THEN NoMatch
        ELSE [hit |-> TRUE,
              currency |-> SubSeq(s, i, i + curLen - 1),
              amount |-> SubSeq(s, k, fin - 1)]

\* amount_re.search(message)
amount_re_search(s) ==
    LET starts == { i \in 1 .. Len(s) : AmountAt(s, i).hit }
    IN  IF starts = {} THEN NoMatch
        ELSE AmountAt(s, CHOOSE x \in starts : \A y \in starts : x <= y)

\* The outcomes of a parse that are not a record.
None == [none |-> TRUE]
ValueError == [raises |-> "ValueError"]
Raises(r) == "raises" \in DOMAIN r

\* float(x) for x made of digits with an optional fraction, in hundredths
\* (the texts of the model carry at most two decimals); float("") raises.
float(x) ==
    LET dot == IndexIn(".", x)
        whole == IF dot = 0 THEN x ELSE SubSeq(x, 1, dot - 1)
        frac == IF dot = 0 THEN "" ELSE SubSeq(x, dot + 1, Len(x))
        cents == ToInt(SubSeq(frac \o "00", 1, 2))
    IN  IF x = "" THEN ValueError ELSE [value |-> 100 * ToInt(whole) + cents]

\* _parse_amount: None, ValueError or [amount, currency]
parse_amount(message) ==
    LET match == amount_re_search(message)
    IN  IF ~match.hit THEN None
        ELSE LET value == float(Remove(match.amount, ","))
             IN  IF Raises(value) THEN ValueError
                 ELSE [amount |-> value.value,
                       currency |-> currency_symbols(Upper(match.currency))]

(***************************************************************************)
(* Dates.                                                                  *)
(***************************************************************************)
date_res ==
    << <<Piece(Digit, 1, 2), Lit("/"), Piece(Digit, 1, 2), Lit("/"), Piece(Digit, 4, 4)>>,
       <<Piece(Digit, 4, 4), Lit("-"), Piece(Digit, 1, 2), Lit("-"), Piece(Digit, 1, 2)>>,
       <<Piece(Digit, 1, 2), Lit("-"), Piece(Digit, 1, 2), Lit("-"), Piece(Digit, 4, 4)>>,
       <<Piece(Digit, 1, 2), Lit(" "), Piece(Letter, 3, 9), Lit(" "), Piece(Digit, 4, 4)>> >>

\* each layout as its three directives and the separator between them
date_formats ==
    << [fields |-> <<"d", "m", "Y">>, sep |-> "/"],
       [fields |-> <<"m", "d", "Y">>, sep |-> "/"],
       [fields |-> <<"Y", "m", "d">>, sep |-> "-"],
       [fields |-> <<"d", "m", "Y">>, sep |-> "-"],
       [fields |-> <<"m", "d", "Y">>, sep |-> "-"],
       [fields |-> <<"d", "b", "Y">>, sep |-> " "],
       [fields |-> <<"d", "B", "Y">>, sep |-> " "] >>

month_abbr ==
    <<"jan", "feb", "mar", "apr", "may", "jun",
      "jul", "aug", "sep", "oct", "nov", "dec">>
month_name ==
    <<"january", "february", "march", "april", "may", "june",
      "july", "august", "september", "october", "november", "december">>

\* str.split(sep)
RECURSIVE Split(_, _)
Split(s, sep) ==
    LET cut == IndexIn(sep, s)
    IN  IF cut = 0 THEN <<s>>
        ELSE <<SubSeq(s, 1, cut - 1)>> \o Split(SubSeq(s, cut + 1, Len(s)), sep)

AllDigits(s) == \A i \in 1 .. Len(s) : Ch(s, i) \in Digit

IndexOf(x, names) ==
    IF \E i \in 1 .. Len(names) : names[i] = x
    THEN CHOOSE i \in 1 .. Len(names) : names[i] = x
    ELSE 0

\* The value strptime reads for one directive, 0 when the text does not match
\* it: %d is 1..9 or 01..31, %m is 1..9 or 01..12, %Y is four digits (and
\* datetime takes no year 0), %b and %B are month names in any case.
Directive(d, s) ==
    CASE d \in {"d", "m"} ->
           IF s # "" /\ Len(s) <= 2 /\ AllDigits(s)
              /\ ToInt(s) >= 1 /\ ToInt(s) <= (IF d = "d" THEN 31 ELSE 12)
           THEN ToInt(s) ELSE 0
      [] d = "Y" -> IF Len(s) = 4 /\ AllDigits(s) THEN ToInt(s) ELSE 0
      [] d = "b" -> IndexOf(Lower(s), month_abbr)
      [] d = "B" -> IndexOf(Lower(s), month_name)

IsLeap(y) == (y % 4 = 0 /\ y % 100 # 0) \/ y % 400 = 0
DaysIn(m, y) ==
    IF m = 2 THEN (IF IsLeap(y) THEN 29 ELSE 28)
    ELSE IF m \in {4, 6, 9, 11} THEN 30 ELSE 31

Pad2(n) == IF n < 10 THEN "0" \o ToStr(n) ELSE ToStr(n)

\* datetime.strptime(text, fmt).strftime("%Y-%m-%d"), "" when strptime raises
\* ValueError.  (%Y prints the year without padding, as the C library does.)
Reformat(text, fmt) ==
    LET parts == Split(text, fmt.sep)
        at(ds) == CHOOSE i \in 1 .. 3 : fmt.fields[i] \in ds
        months == {"m", "b", "B"}
        day == Directive("d", parts[at({"d"})])
        month == Directive(fmt.fields[at(months)], parts[at(months)])
        year == Directive("Y", parts[at({"Y"})])
    IN  IF Len(parts) # 3 THEN ""
        ELSE IF day = 0 \/ month = 0 \/ year = 0 THEN ""
        ELSE IF day > DaysIn(month, year) THEN ""
        ELSE ToStr(year) \o "-" \o Pad2(month) \o "-" \o Pad2(day)

\* _normalize_date: the first layout that parses, else the text as it is
RECURSIVE NormalizeFrom(_, _)
NormalizeFrom(text, k) ==
    IF k > Len(date_formats) THEN text
    ELSE IF Reformat(text, date_formats[k]) # "" THEN Reformat(text, date_formats[k])
    ELSE NormalizeFrom(text, k + 1)
normalize_date(text) == NormalizeFrom(text, 1)

\* _extract_date: the first pattern of date_res that matches anywhere, else
\* datetime.utcnow() as a date
RECURSIVE ExtractFrom(_, _, _)
ExtractFrom(message, k, now) ==
    IF k > Len(date_res) THEN now
    ELSE IF Search(date_res[k], message).hit
         THEN normalize_date(Search(date_res[k], message).text)
    ELSE ExtractFrom(message, k + 1, now)
extract_date(message, now) == ExtractFrom(message, 1, now)

(***************************************************************************)
(* _parse_message, parse_sms, parse_email.                                 *)
(***************************************************************************)
AnyIn(keywords, text) == \E k \in keywords : Contains(text, k)

Sign(lower_msg) ==
    IF AnyIn(debit_keywords, lower_msg) THEN -1
    ELSE IF AnyIn(credit_keywords, lower_msg) THEN 1 ELSE 1

parse_message(message, now) ==
    LET lower_msg == Lower(message)
        amount_data == parse_amount(message)
    IN  IF AnyIn(ignore_keywords, lower_msg) THEN None
        ELSE IF Raises(amount_data) THEN ValueError
        ELSE IF amount_data = None THEN None
        ELSE Transaction(extract_date(message, now), Strip(message),
                         Sign(lower_msg) * amount_data.amount,
                         amount_data.currency)

parse_sms(message, now) == parse_message(message, now)
parse_email(message, now) == parse_message(message, now)

(***************************************************************************)
(* The messages the transport delivers: up to MaxWords words joined by     *)
(* single spaces, and some whole alerts.                                   *)
(***************************************************************************)
Words ==
    { "failed", "REVERSAL", "Declined", "cancelled",
      "Debited", "spent", "paid", "sent", "credited", "refunded",
      "$20", "INR 1,234.56", "USD 0", "and,", "50", "12-05-2023" }

RECURSIVE WordTexts(_)
WordTexts(n) ==
    IF n = 0 THEN { "" }
    ELSE LET shorter == WordTexts(n - 1)
         IN  shorter \cup Words
                     \cup { t \o " " \o w : t \in shorter \ {""}, w \in Words }

Alerts ==
    { "Acct 1234 debited with INR 1,234.56 at Amazon on 12-05-2023",
      "You were credited $50.23 from PAYPAL 2023/05/12",
      "Your payment of $20 has failed",
      "Hello and, welcome" }

Texts == WordTexts(MaxWords) \cup Alerts

\* the days datetime.utcnow() passes through
Days == <<"2026-11-02", "2026-11-03">>

(***************************************************************************)
(* One pass of the `for txn in self.fetch_transactions()` loop of          *)
(* stream_transactions, driven by the `async for` of _stream_bank: every   *)
(* candidate with a new key is marked seen and yielded; the consumer       *)
(* appends it and breaks out when the stop event is set.  Nothing awaits   *)
(* inside the pass, so it is one step of the event loop.                   *)
(***************************************************************************)
SeenAfter_NoMark(seen, key) == seen
SeenAfter(seen, key) == seen \cup {key}

RECURSIVE StreamBatch(_, _, _, _, _)
StreamBatch(batch, seen, ledger, fwd, flag) ==
    IF batch = <<>>
    THEN [seen |-> seen, ledger |-> ledger, fwd |-> fwd, broke |-> FALSE]
    ELSE LET txn == Head(batch)
             key == Key(txn)
         IN  IF key \notin seen
             THEN IF flag
                  THEN [seen |-> SeenAfter(seen, key),
                        ledger |-> add_transaction(ledger, txn),
                        fwd |-> Append(fwd, txn), broke |-> TRUE]
                  ELSE StreamBatch(Tail(batch), SeenAfter(seen, key),
                                   add_transaction(ledger, txn),
                                   Append(fwd, txn), flag)
             ELSE StreamBatch(Tail(batch), seen, ledger, fwd, flag)

(***************************************************************************)
(* The supervisor.                                                         *)
(***************************************************************************)
\* `seen = set()` at the top of stream_transactions: every call of the
\* generator function starts from an empty set.
\* The poll task is "ready" when the loop is about to run it and "sleep"
\* inside asyncio.sleep(poll_interval).  A listener is "waiting" from its
\* creation by gather() and whenever it is inside asyncio.sleep(3600): its
\* loop does nothing between two tests of the event, so one step is one test.
NewGroup ==
    [bank |-> "ready", sms |-> "waiting", email |-> "waiting", seen |-> {}]

Groups == 1 .. Len(tasks)
Cur == Len(tasks)

Live(st) == st \in {"ready", "sleep", "waiting"}

\* the future gather() returned has a result or an exception
GatherFailed_Always(g) == TRUE
GatherFailed(g) == tasks[g].bank = "failed"
GatherFinished(g) ==
    tasks[g].bank = "done" /\ tasks[g].sms = "done" /\ tasks[g].email = "done"

\* `while not self._stop_event.is_set()`
LoopContinues_IgnoreStop(flag) == TRUE
LoopContinues(flag) == ~flag

\* the try / except / else around `await asyncio.gather(...)`: where start()
\* goes for each way the await can end
AfterGather_NoCatch(how) ==
    CASE how = "CancelledError" -> "stopped"
      [] how = "Exception" -> "raised"
      [] how = "returned" -> "stopped"
AfterGather(how) ==
    CASE how = "CancelledError" -> "stopped"
      [] how = "Exception" -> "backoff"
      [] how = "returned" -> "stopped"

\* RealTimeBudgetApp(bank, parser, manager) with a new BudgetManager
Constructed ==
    /\ stop = FALSE
    /\ transactions = <<>>
    /\ spc = "idle"
    /\ tasks = <<>>
    /\ forwarded = <<>>
    /\ polled = {}
    /\ repeated = FALSE
    /\ lateSleep = FALSE
    /\ utcnow = Days[1]
    /\ calls = 0
    /\ outcome = "none"

\* the supervisor on its own: the transport delivers nothing
Init == Constructed /\ msg = ""

\* The top of the while loop of start(): test the event and either create the
\* three tasks with gather() or fall through to the final log line.
EnterLoop ==
    IF LoopContinues(stop)
    THEN /\ Len(tasks) < MaxGroups
         /\ tasks' = Append(tasks, NewGroup)
         /\ forwarded' = Append(forwarded, <<>>)
         /\ polled' = {}
         /\ repeated' = FALSE
         /\ spc' = "gather"
    ELSE /\ spc' = "stopped"
         /\ UNCHANGED <<tasks, forwarded, polled, repeated>>

\* await app.start()
Start ==
    /\ spc = "idle"
    /\ EnterLoop
    /\ UNCHANGED <<stop, transactions, lateSleep, handleVars>>

\* await app.stop()
Stop_Toggle ==
    /\ stop' = ~stop
    /\ UNCHANGED <<transactions, spc, tasks, forwarded, polled, repeated, lateSleep, handleVars>>
Stop ==
    /\ stop' = TRUE
    /\ UNCHANGED <<transactions, spc, tasks, forwarded, polled, repeated, lateSleep, handleVars>>

\* The poll task runs: fetch_transactions() raises, or returns a batch that
\* is streamed into the ledger; then the task sleeps poll_interval, unless
\* the consumer broke out of the async for.
BankFetchRaises(g) ==
    /\ g \in Groups
    /\ tasks[g].bank = "ready"
    /\ tasks' = [tasks EXCEPT ![g].bank = "failed"]
    /\ UNCHANGED <<stop, transactions, spc, forwarded, polled, repeated, lateSleep, handleVars>>

BankPoll(g) ==
    /\ g \in Groups
    /\ tasks[g].bank = "ready"
    /\ \E batch \in Batches :
         LET r == StreamBatch(batch, tasks[g].seen, transactions,
                              forwarded[g], stop)
         IN  /\ tasks' = [tasks EXCEPT ![g].seen = r.seen,
                                       ![g].bank = IF r.broke THEN "done"
                                                   ELSE "sleep"]
             /\ transactions' = r.ledger
             /\ forwarded' = [forwarded EXCEPT ![g] = r.fwd]
             /\ lateSleep' = (lateSleep \/ (~r.broke /\ stop))
             /\ polled' = IF g = Cur THEN polled \cup Elems(batch) ELSE polled
             /\ repeated' = IF g = Cur
                            THEN repeated \/ Repeats(batch, polled)
                            ELSE repeated
    /\ UNCHANGED <<stop, spc, handleVars>>

\* asyncio.sleep(poll_interval) is over: the poll task is scheduled again
BankWake(g) ==
    /\ g \in Groups
    /\ tasks[g].bank = "sleep"
    /\ tasks' = [tasks EXCEPT ![g].bank = "ready"]
    /\ UNCHANGED <<stop, transactions, spc, forwarded, polled, repeated, lateSleep, handleVars>>

\* `while not self._stop_event.is_set(): await asyncio.sleep(3600)`
ListenerNext(flag) == IF flag THEN "done" ELSE "waiting"

SmsStep(g) ==
    /\ g \in Groups
    /\ tasks[g].sms = "waiting"
    /\ tasks' = [tasks EXCEPT ![g].sms = ListenerNext(stop)]
    /\ lateSleep' = (lateSleep \/ (ListenerNext(stop) = "waiting" /\ stop))
    /\ UNCHANGED <<stop, transactions, spc, forwarded, polled, repeated, handleVars>>

EmailStep(g) ==
    /\ g \in Groups
    /\ tasks[g].email = "waiting"
    /\ tasks' = [tasks EXCEPT ![g].email = ListenerNext(stop)]
    /\ lateSleep' = (lateSleep \/ (ListenerNext(stop) = "waiting" /\ stop))
    /\ UNCHANGED <<stop, transactions, spc, forwarded, polled, repeated, handleVars>>

\* start() resumes from `await asyncio.gather(...)`: a child raised (gather
\* hands over the first exception and leaves the other children running), or
\* all three returned.
GatherRaises ==
    /\ spc = "gather"
    /\ GatherFailed(Cur)
    /\ spc' = AfterGather("Exception")
    /\ UNCHANGED <<stop, transactions, tasks, forwarded, polled, repeated, lateSleep, handleVars>>

GatherReturns ==
    /\ spc = "gather"
    /\ GatherFinished(Cur)
    /\ spc' = AfterGather("returned")
    /\ UNCHANGED <<stop, transactions, tasks, forwarded, polled, repeated, lateSleep, handleVars>>

\* `await asyncio.sleep(1)` in the except branch is over: back to the top of
\* the while loop.
BackoffDone ==
    /\ spc = "backoff"
    /\ EnterLoop
    /\ UNCHANGED <<stop, transactions, lateSleep, handleVars>>

\* The host cancels the task running start().  Awaiting gather: a pending
\* gather cancels its children and start() resumes with CancelledError once
\* they are gone.  Awaiting the backoff sleep: CancelledError is raised inside
\* the except branch and leaves start().
CancelChild(st) == IF Live(st) THEN "cancelled" ELSE st

CancelInGather ==
    /\ spc = "gather"
    /\ tasks' = IF GatherFailed(Cur) \/ GatherFinished(Cur)
                THEN tasks
                ELSE [tasks EXCEPT ![Cur].bank = CancelChild(@),
                                   ![Cur].sms = CancelChild(@),
                                   ![Cur].email = CancelChild(@)]
    /\ spc' = "cancelling"
    /\ UNCHANGED <<stop, transactions, forwarded, polled, repeated, lateSleep, handleVars>>

GatherCancelled ==
    /\ spc = "cancelling"
    /\ spc' = AfterGather("CancelledError")
    /\ UNCHANGED <<stop, transactions, tasks, forwarded, polled, repeated, lateSleep, handleVars>>

CancelInBackoff ==
    /\ spc = "backoff"
    /\ spc' = "cancelled"
    /\ UNCHANGED <<stop, transactions, tasks, forwarded, polled, repeated, lateSleep, handleVars>>

Next ==
    \/ Start
    \/ Stop
    \/ \E g \in Groups : BankFetchRaises(g)
    \/ \E g \in Groups : BankPoll(g)
    \/ \E g \in Groups : BankWake(g)
    \/ \E g \in Groups : SmsStep(g)
    \/ \E g \in Groups : EmailStep(g)
    \/ GatherRaises
    \/ GatherReturns
    \/ BackoffDone
    \/ CancelInGather
    \/ GatherCancelled
    \/ CancelInBackoff

Spec == Init /\ [][Next]_vars

(***************************************************************************)
(* The synchronous entry points, applied to a message drawn from Texts.    *)
(***************************************************************************)
\* the body shared by handle_sms and handle_email: `txn = parse(message)`,
\* `if txn: self.manager.add_transaction(txn)`
Handle(txn) ==
    /\ calls < MaxCalls
    /\ calls' = calls + 1
    /\ IF Raises(txn)
       THEN /\ outcome' = txn.raises
            /\ UNCHANGED transactions
       ELSE /\ outcome' = "returned"
            /\ transactions' = IF txn = None THEN transactions
                               ELSE add_transaction(transactions, txn)
    /\ UNCHANGED <<appVars, msg, utcnow>>

handle_sms == Handle(parse_sms(msg, utcnow))
handle_email == Handle(parse_email(msg, utcnow))

\* midnight UTC passes
Tick ==
    /\ \E i \in 1 .. Len(Days) - 1 : utcnow = Days[i] /\ utcnow' = Days[i + 1]
    /\ UNCHANGED <<appVars, transactions, msg, calls, outcome>>

InitParser == Constructed /\ msg \in Texts
NextParser == handle_sms \/ handle_email \/ Tick
ParserSpec == InitParser /\ [][NextParser]_vars

\* The whole application: the supervisor runs while the transport calls
\* handle_sms / handle_email with a delivered text.  The calls are synchronous
\* and the tasks yield only at their awaits, so every call and every task
\* step is one step here, in any order.
Deliveries == { "$2023", "50" }

InitApp == Constructed /\ msg \in Deliveries
NextApp == Next \/ handle_sms \/ handle_email
AppSpec == InitApp /\ [][NextApp]_vars

\* Fair scheduling: the event loop runs every task that is ready, fires every
\* timer and resumes start() when what it awaits is over.  What the bank
\* returns, stop() and cancellation are up to the environment.
BankStep(g) == BankFetchRaises(g) \/ BankPoll(g)

Fairness ==
    /\ \A g \in 1 .. MaxGroups :
         /\ WF_vars(BankStep(g))
         /\ WF_vars(BankWake(g))
         /\ WF_vars(SmsStep(g))
         /\ WF_vars(EmailStep(g))
    /\ WF_vars(GatherRaises)
    /\ WF_vars(GatherReturns)
    /\ WF_vars(BackoffDone)
    /\ WF_vars(GatherCancelled)

FairSpec == Spec /\ Fairness

(***************************************************************************)
(* Python float.  Transaction.amount is an IEEE 754 double, and sum() adds *)
(* doubles one at a time, rounding each result to MantBits significant     *)
(* bits, to nearest with ties to even.  A non-negative double is kept here *)
(* as NumLimbs limbs of LimbBits bits, most significant first: the first   *)
(* limb is the integer part, the others the binary fraction.  The amounts  *)
(* of the ledger, in hundredths, name the doubles nearest to them.         *)
(***************************************************************************)
MantBits == 53
LimbBits == 24
NumLimbs == 4

RECURSIVE Pow2(_)
Pow2(k) == IF k = 0 THEN 1 ELSE 2 * Pow2(k - 1)
Pow2Table == [k \in 0 .. LimbBits |-> Pow2(k)]
Base == Pow2Table[LimbBits]

Abs(x) == IF x < 0 THEN -x ELSE x

ZeroFloat == [k \in 1 .. NumLimbs |-> 0]

\* the number of bits of v < Base
BitLength(v) ==
    CHOOSE k \in 0 .. LimbBits :
        v < Pow2Table[k] /\ (k = 0 \/ v >= Pow2Table[k - 1])

\* the number of bits from the leading 1 down to the last bit of the last limb
SigBits(x) ==
    IF \A k \in 1 .. NumLimbs : x[k] = 0 THEN 0
    ELSE LET top == CHOOSE k \in 1 .. NumLimbs :
                        x[k] # 0 /\ \A j \in 1 .. k - 1 : x[j] = 0
         IN  LimbBits * (NumLimbs - top) + BitLength(x[top])

\* bit t of x, counted from the last bit (t = 0)
BitAt(x, t) ==
    (x[NumLimbs - (t \div LimbBits)] \div Pow2Table[t % LimbBits]) % 2

\* one of the t last bits of x is 1
AnyBelow(x, t) ==
    \E k \in 1 .. NumLimbs :
        LET low == LimbBits * (NumLimbs - k)
        IN  IF low + LimbBits <= t THEN x[k] # 0
            ELSE IF low < t THEN x[k] % Pow2Table[t - low] # 0
            ELSE FALSE

\* x with its t last bits cleared
ClearBelow(x, t) ==
    [k \in 1 .. NumLimbs |->
        LET low == LimbBits * (NumLimbs - k)
        IN  IF low >= t THEN x[k]
            ELSE IF low + LimbBits <= t THEN 0
            ELSE x[k] - (x[k] % Pow2Table[t - low])]

\* the value with bit t alone
UnitAt(t) ==
    [k \in 1 .. NumLimbs |->
        IF NumLimbs - (t \div LimbBits) = k THEN Pow2Table[t % LimbBits] ELSE 0]

\* the exact sum of two values, limb by limb with carries
RECURSIVE CarryInto(_, _, _)
CarryInto(x, y, k) ==
    IF k >= NumLimbs THEN 0
    ELSE (x[k + 1] + y[k + 1] + CarryInto(x, y, k + 1)) \div Base
AddLimbs(x, y) ==
    [k \in 1 .. NumLimbs |-> (x[k] + y[k] + CarryInto(x, y, k)) % Base]

\* round to MantBits significant bits, to nearest, ties to even; `inexact`
\* says that digits beyond the last limb were already dropped
RoundFloat(x, inexact) ==
    LET drop == SigBits(x) - MantBits
    IN  IF drop <= 0 THEN x
        ELSE IF /\ BitAt(x, drop - 1) = 1
                /\ (inexact \/ AnyBelow(x, drop - 1) \/ BitAt(x, drop) = 1)
             THEN AddLimbs(ClearBelow(x, drop), UnitAt(drop))
             ELSE ClearBelow(x, drop)

\* x + y on floats
FloatAdd(x, y) == RoundFloat(AddLimbs(x, y), FALSE)

\* n / 100 by long division, a limb at a time: the limbs of the quotient and
\* the remainder that is left
DivideBy100(n) ==
    LET r1 == n % 100
        r2 == (r1 * Base) % 100
        r3 == (r2 * Base) % 100
    IN  [limbs |-> << n \div 100, (r1 * Base) \div 100, (r2 * Base) \div 100,
                      (r3 * Base) \div 100 >>,
         rem |-> (r3 * Base) % 100]

\* the float nearest to n hundredths: what float("...") gives for a numeral
\* of two decimals
DoubleOf(n) == RoundFloat(DivideBy100(n).limbs, DivideBy100(n).rem # 0)

\* sum(...) over floats: the additions in order, from 0
RECURSIVE FloatSum(_, _)
FloatSum(acc, amounts) ==
    IF amounts = <<>> THEN acc
    ELSE FloatSum(FloatAdd(acc, DoubleOf(Head(amounts))), Tail(amounts))

AmountsOf(ledger) == [i \in 1 .. Len(ledger) |-> ledger[i].amount]
IsIncome(a) == a > 0
IsExpense(a) == a < 0
Negated(amounts) == [i \in 1 .. Len(amounts) |-> -amounts[i]]

\* BudgetManager.total_income, BudgetManager.total_expenses
total_income(ledger) ==
    FloatSum(ZeroFloat, SelectSeq(AmountsOf(ledger), IsIncome))
total_expenses(ledger) ==
    FloatSum(ZeroFloat, Negated(SelectSeq(AmountsOf(ledger), IsExpense)))

(***************************************************************************)
(* Properties.                                                             *)
(***************************************************************************)
KeysOf(q) == { Key(q[i]) : i \in 1 .. Len(q) }
NoDupKeys(q) == \A i, j \in 1 .. Len(q) : Key(q[i]) = Key(q[j]) => i = j
Exited(g) ==
    ~Live(tasks[g].bank) /\ ~Live(tasks[g].sms) /\ ~Live(tasks[g].email)
\* the three tasks of the group start() launched last are gone
CurExited == Len(tasks) = 0 \/ Exited(Cur)

\* C1: a key forwarded to the ledger by the poll task of one group is not
\* forwarded again by the poll task of a group launched after it.
C1_NoRedeliveryAfterRestart ==
    \A g1, g2 \in Groups :
        g1 < g2 => KeysOf(forwarded[g1]) \cap KeysOf(forwarded[g2]) = {}

\* C2: within one run of the poll task every key is forwarded at most once,
\* and, unless the consumer broke out on the stop event, every key the bank
\* returned has been forwarded: N distinct keys give N records.
C2_EachKeyForwardedOnce ==
    /\ \A g \in Groups : NoDupKeys(forwarded[g])
    /\ Len(tasks) > 0 =>
         /\ KeysOf(forwarded[Cur]) \subseteq { Key(t) : t \in polled }
         /\ tasks[Cur].bank # "done" =>
              KeysOf(forwarded[Cur]) = { Key(t) : t \in polled }

\* a run that was handed both keys, one of them more than once, and forwarded
\* two records
C2_Witness ==
    /\ Len(tasks) > 0
    /\ repeated
    /\ Cardinality(polled) = 2
    /\ Len(forwarded[Cur]) = 2
    /\ tasks[Cur].bank = "sleep"

\* C3: start() never ends by raising the error of a task.
C3_TaskErrorNotPropagated == spc # "raised"

\* the poll task of the first group failed and start() launched a second group
C3_Witness ==
    /\ Len(tasks) = 2
    /\ tasks[1].bank = "failed"
    /\ spc = "gather"

\* C4: no task begins a sleep while the stop event is set.
C4_NoSleepAfterStop == ~lateSleep

\* C5: once the stop event is set, start() launches no task group.
C5_NoLaunchAfterStop == [][stop => Len(tasks') = Len(tasks)]_vars

\* the poll task failed, stop() was called, and start() left its loop with a
\* launch still within the bound
C5_Witness ==
    /\ stop
    /\ spc = "stopped"
    /\ Len(tasks) = 1
    /\ tasks[1].bank = "failed"

\* C6: after stop() on a running supervisor start() eventually returns with
\* the three tasks of its group gone (unless the host cancels start()).
C6_StopTerminates ==
    (stop /\ spc = "gather") ~>
        ((spc = "stopped" /\ CurExited) \/ spc \in {"cancelling", "cancelled"})

\* C7: start() reaches its final log line only after stop() and with the
\* three tasks of its group gone.
C7_StoppedOnlyAfterStop ==
    spc = "stopped" => (stop /\ CurExited)

IsRecord(r) == "amount" \in DOMAIN r
\* what the parser makes of the delivered text now
Parsed == parse_message(msg, utcnow)
\* the text holds an amount token that converts to a number
HasValidAmount == IsRecord(parse_amount(msg))

\* C8: a handle_sms / handle_email call returns normally; it appends exactly
\* the parsed record to the end of the ledger when the text parses and
\* leaves the ledger as it is when it does not.
C8_HandleNeverRaises ==
    [][calls' # calls =>
         /\ outcome' = "returned"
         /\ transactions' = IF IsRecord(Parsed) THEN Append(transactions, Parsed)
                            ELSE transactions]_vars

\* C9: a text with one of the six negative-outcome words (in any case) and a
\* valid amount yields no record: handling it leaves the ledger empty.
NegativeOutcomeWords ==
    {"failed", "declined", "reversed", "reversal", "unsuccessful", "cancelled"}

C9_NegativeOutcomeNoRecord ==
    (calls > 0 /\ AnyIn(NegativeOutcomeWords, Lower(msg)) /\ HasValidAmount) =>
        (Parsed = None /\ transactions = <<>>)

\* C10: a text that holds one of the eight debit words and parses to a record
\* gives a negative amount (a numeral that is zero is left aside): every
\* record the handlers made of it is negative.
DebitWords ==
    {"debit", "debited", "withdrawn", "purchase", "spent", "payment", "paid", "sent"}

C10_DebitWordNegative ==
    AnyIn(DebitWords, Lower(msg)) =>
        \A i \in 1 .. Len(transactions) :
            transactions[i].amount # 0 => transactions[i].amount < 0

\* the text holds a digit; it holds what amount_re takes for a currency (a
\* glyph of currency_symbols or three letters in a row)
HasDigit(s) == \E i \in 1 .. Len(s) : Ch(s, i) \in Digit
HasCurrencySignal(s) ==
    \E i \in 1 .. Len(s) : RunLen(s, i, Letter) >= 3 \/ Ch(s, i) \in currency_glyphs

\* C11: a text with a digit group, no currency glyph or three-letter code and
\* no negative-outcome word parses to a record whose currency is "USD", and
\* handling it puts that record in the ledger.
C11_BareAmountIsUSD ==
    (/\ calls > 0
     /\ HasDigit(msg)
     /\ ~HasCurrencySignal(msg)
     /\ ~AnyIn(NegativeOutcomeWords, Lower(msg))) =>
        (IsRecord(Parsed) /\ Parsed.currency = "USD" /\ transactions # <<>>)

\* C12: parsing the same text at two points in time gives the same result:
\* the records the handlers made of the delivered text are all equal in date,
\* description, amount and currency.
C12_ParseDeterministic ==
    \A i, j \in 1 .. Len(transactions) : transactions[i] = transactions[j]

\* C14: handling "Acct 1234 debited with INR 1,234.56 at Amazon on 12-05-2023"
\* puts in the ledger a record with amount -1234.56, currency "INR",
\* description "Amazon" and date "2023-05-12".
AmazonAlert == "Acct 1234 debited with INR 1,234.56 at Amazon on 12-05-2023"

C14_AmazonAlertRecord ==
    (msg = AmazonAlert /\ calls > 0) =>
        /\ transactions # <<>>
        /\ transactions[1].amount = -123456
        /\ transactions[1].currency = "INR"
        /\ transactions[1].description = "Amazon"
        /\ transactions[1].date = "2023-05-12"

\* C15: in every state at most one poll task, one SMS listener and one
\* email listener are live: no task of a failed group still runs once the
\* next group has been launched.
LiveOf(kind) == { g \in Groups : Live(tasks[g][kind]) }

C15_OneLiveTaskOfEachKind ==
    \A kind \in {"bank", "sms", "email"} : Cardinality(LiveOf(kind)) <= 1

\* C16: start() launches a task group only when it is called or when the
\* backoff sleep that followed a task failure is over, and it enters the
\* backoff only from a gather whose poll task failed: every group but the
\* newest has failed, one failure gives one backoff and one relaunch.  Under
\* fair scheduling the failure of the poll task does lead to the backoff
\* (unless the host cancels start() first).
C16_OneBackoffPerFailure ==
    /\ [][/\ Len(tasks') # Len(tasks) =>
               /\ Len(tasks') = Len(tasks) + 1
               /\ spc \in {"idle", "backoff"}
               /\ spc' = "gather"
          /\ (spc' = "backoff" /\ spc # "backoff") =>
               /\ spc = "gather"
               /\ tasks[Cur].bank = "failed"]_vars
    /\ [](\A g \in Groups : g < Cur => tasks[g].bank = "failed")
    /\ [](spc = "backoff" => tasks[Cur].bank = "failed")
    /\ (spc = "gather" /\ tasks[Cur].bank = "failed") ~>
           (spc \in {"backoff", "cancelling"})

\* one failure, one backoff, and the second group is polling
C16_Witness ==
    /\ Len(tasks) = 2
    /\ tasks[1].bank = "failed"
    /\ tasks[2].bank = "sleep"
    /\ Len(forwarded[2]) > 0
    /\ ~stop

\* C20: the stop event is never cleared, and a start() called with the event
\* set returns at once: it launches no task, polls nothing and appends
\* nothing.
C20_StopIsFinal ==
    [][/\ stop => stop'
       /\ (stop /\ spc = "idle" /\ spc' # "idle") =>
            /\ spc' = "stopped"
            /\ tasks' = tasks
            /\ transactions' = transactions
            /\ polled' = polled]_vars

\* stop() came before start(), and start() has returned
C20_Witness ==
    /\ stop
    /\ spc = "stopped"
    /\ tasks = <<>>
    /\ transactions = <<>>

\* The sum of the absolute values of the amounts of the ledger, taken three
\* ways: by float additions in ledger order, exactly over the floats and
\* rounded once, and exactly over the decimal amounts.
Magnitudes(ledger) == [i \in 1 .. Len(ledger) |-> Abs(ledger[i].amount)]

RECURSIVE ExactSum(_, _)
ExactSum(acc, amounts) ==
    IF amounts = <<>> THEN acc
    ELSE ExactSum(AddLimbs(acc, DoubleOf(Head(amounts))), Tail(amounts))

RECURSIVE DecimalSum(_)
DecimalSum(amounts) ==
    IF amounts = <<>> THEN 0 ELSE Head(amounts) + DecimalSum(Tail(amounts))

SumsOfMagnitudes(ledger) ==
    { FloatSum(ZeroFloat, Magnitudes(ledger)),
      RoundFloat(ExactSum(ZeroFloat, Magnitudes(ledger)), FALSE),
      DoubleOf(DecimalSum(Magnitudes(ledger))) }

\* C13: after any sequence of appends total_income() + total_expenses()
\* equals the sum of the absolute values of the amounts in the ledger.
C13_TotalsAddUp ==
    FloatAdd(total_income(transactions), total_expenses(transactions))
        \in SumsOfMagnitudes(transactions)

\* what the parser makes of each text the application is delivered, on each
\* day, worked out once
DeliveryResults ==
    [m \in Deliveries |-> [d \in Elems(Days) |-> parse_message(m, d)]]
Delivered == DeliveryResults[msg][utcnow]

\* the records the handle_sms / handle_email calls made so far have appended,
\* in the order of the calls (the delivered text and the day do not change
\* while the application runs)
Handled == [i \in 1 .. (IF IsRecord(Delivered) THEN calls ELSE 0) |-> Delivered]

\* the streams of records that reach the ledger: one per poll task, in the
\* order the task took them from the source, and the one of the handlers
Streams == Append(forwarded, Handled)

\* `ledger` is an interleaving of the streams that keeps the order of each
RECURSIVE IsMerge(_, _)
IsMerge(ledger, streams) ==
    IF ledger = <<>> THEN \A i \in DOMAIN streams : streams[i] = <<>>
    ELSE \E i \in DOMAIN streams :
            /\ streams[i] # <<>>
            /\ Head(streams[i]) = Head(ledger)
            /\ IsMerge(Tail(ledger), [streams EXCEPT ![i] = Tail(@)])

C18_LedgerAppendOnly ==
    [][/\ Len(transactions') >= Len(transactions)
       /\ SubSeq(transactions', 1, Len(transactions)) = transactions]_vars

\* records of the first group, of a handler call and of the group launched
\* after the failure are all in the ledger
C18_Witness ==
    /\ Len(forwarded) = 2
    /\ Len(forwarded[1]) > 0
    /\ Len(forwarded[2]) > 0
    /\ calls > 0
    /\ Len(transactions) >= 3

RECURSIVE TotalLen(_)
TotalLen(streams) ==
    IF streams = <<>> THEN 0 ELSE Len(Head(streams)) + TotalLen(Tail(streams))

\* C19: whatever the interleaving of poll tasks and handler calls, the
\* length of the ledger is the number of records the poll tasks forwarded
\* plus the number of handler calls that parsed their text.
C19_NoAppendLostOrDoubled == Len(transactions) = TotalLen(Streams)

\* two handler calls and a poll, one record each way lost to nobody
C19_Witness ==
    /\ calls = MaxCalls
    /\ IsRecord(Delivered)
    /\ Len(forwarded) > 0
    /\ Len(forwarded[1]) = 2
    /\ Len(transactions) = MaxCalls + 2

=============================================================================
